---- MODULE Spec2Model ----
(***************************************************************************)
(* The travel-itinerary application: the two Streamlit scripts BB.py and   *)
(* Phase1.py.  One session is modelled: the form inputs, the single cached *)
(* itinerary (st.session_state["itinerary"]), the call to the generation   *)
(* service that is in flight, and what one run of main() shows.            *)
(*                                                                         *)
(* A text is a sequence of characters; a character is a one-element        *)
(* string, and a literal of the source (a fixed phrase, a month name, a    *)
(* digit) is one element too.  None and the empty string are different     *)
(* values, both falsy, as in Python.                                       *)
(***************************************************************************)
EXTENDS Integers, Sequences, FiniteSets, TLC

VARIABLES
    variant,          \* which script runs: "BB" or "Phase1"
    fonts,            \* the font files present in the app directory
    location, days, month, budget, activities, travel_companion, language,
    itinerary,        \* st.session_state["itinerary"]
    pc,               \* "idle" between runs, "generating" while the call is in flight
    prompt,           \* the prompt of the call in flight (a local of generate_itinerary)
    calls,            \* how many times the generation service was called
    ui,               \* what the latest run of main() showed
    pdf,              \* the latest create_pdf call of the latest run
    crashed,          \* the latest run ended in an uncaught exception
    event,            \* what triggered the latest run
    lastOutcome,      \* how the latest generation call ended
    cachedRequest     \* the request whose generation filled the cache

vars == <<variant, fonts, location, days, month, budget, activities,
          travel_companion, language, itinerary, pc, prompt, calls, ui, pdf,
          crashed, event, lastOutcome, cachedRequest>>

inputs == <<location, days, month, budget, activities, travel_companion, language>>

-----------------------------------------------------------------------------
(* Bounds of the model *)

MaxLen == 2        \* longest text typed or completed
MaxCalls == 2      \* generation calls in one behaviour
MaxActs == 2       \* activities selected at once

(* Program constants *)

MinDays == 1
MaxDays == 7
DefaultDaysBB == 2
DefaultDaysPhase1 == 3

Variants == {"BB", "Phase1"}

MonthOptions ==
    <<"January", "February", "March", "April", "May", "June",
      "July", "August", "September", "October", "November", "December">>
BudgetOptions == <<"Budget", "Mid-range", "Luxury">>
ActivityOptions == <<"Adventure", "Relaxation", "Cultural", "Sightseeing", "Food Tour">>
CompanionOptions == <<"Solo", "Couple", "Family", "Friends">>
LanguageOptions == <<"English", "Spanish", "French", "German", "Hindi", "Bengali">>

DayStr == [d \in MinDays..MaxDays |-> <<"1", "2", "3", "4", "5", "6", "7">>[d]]

Range(s) == {s[i] : i \in 1..Len(s)}

DefaultDays(v) == IF v = "BB" THEN DefaultDaysBB ELSE DefaultDaysPhase1

-----------------------------------------------------------------------------
(* Characters and texts *)

Whitespace == {" "}
\* in Latin-1 but not ASCII
Latin1Only == {"e_acute", "sharp_s"}
\* outside Latin-1: L with stroke, the fi ligature, the combining acute accent
NonLatin1 == {"L_stroke", "fi_lig", "comb_acute"}

IsAscii(c) == c \notin Latin1Only \cup NonLatin1
InLatin1(text) == \A i \in 1..Len(text) : text[i] \notin NonLatin1

TextsOver(chars, n) == UNION {[1..k -> chars] : k \in 0..n}

RECURSIVE lstrip(_)
lstrip(s) == IF s # <<>> /\ Head(s) \in Whitespace THEN lstrip(Tail(s)) ELSE s

RECURSIVE rstrip(_)
rstrip(s) ==
    IF s # <<>> /\ s[Len(s)] \in Whitespace
    THEN rstrip(SubSeq(s, 1, Len(s) - 1))
    ELSE s

strip(s) == rstrip(lstrip(s))

\* unicodedata.normalize('NFKD', c) of one character
NFKD(c) ==
    CASE c = "e_acute" -> <<"e", "comb_acute">>
      [] c = "fi_lig"  -> <<"f", "i">>
      [] OTHER         -> <<c>>

RECURSIVE normalize(_)
normalize(text) ==
    IF text = <<>> THEN <<>> ELSE NFKD(Head(text)) \o normalize(Tail(text))

\* .encode('ascii', 'ignore').decode('utf-8')
encode_ascii_ignore(text) == SelectSeq(text, IsAscii)

remove_non_ascii(text) == encode_ascii_ignore(normalize(text))

-----------------------------------------------------------------------------
(* Python values: None, or a string *)

NoneVal == [isNone |-> TRUE, text |-> <<>>]
Str(s) == [isNone |-> FALSE, text |-> s]
Truthy(v) == ~v.isNone /\ v.text # <<>>

-----------------------------------------------------------------------------
(* generate_itinerary: the prompt *)

RECURSIVE join(_)
join(acts) ==
    IF Len(acts) = 0 THEN <<>>
    ELSE IF Len(acts) = 1 THEN <<acts[1]>>
    ELSE <<acts[1], ", ">> \o join(Tail(acts))

\* a prompt that names only the first selected activity
activity_str_first(acts) == IF acts # <<>> THEN <<acts[1]>> ELSE <<"any">>

activity_str(acts) == IF acts # <<>> THEN join(acts) ELSE <<"any">>

Prompt_BB(loc, d, m, b, acts, comp) ==
    <<"Generate a ", DayStr[d], "-day travel itinerary for ">> \o loc
    \o <<" in ", m, " for a ", b, " budget. ", "Focus on ">> \o activity_str(acts)
    \o <<" activities for someone traveling ", comp, ". ",
         "Include morning, afternoon, and evening suggestions with food options. ",
         "Ensure popular and offbeat spots are covered with specific timings. ",
         "Avoid displaying prices.">>

Prompt_Phase1(loc, d, m, b, acts, comp, lang) ==
    <<"Create a detailed and high-quality ", DayStr[d],
      "-day travel itinerary for ">> \o loc
    \o <<" in ", m, " for a ", b, " budget. ",
         "Include well-planned morning, afternoon, and evening activities for each day. ",
         "Include top attractions, hidden gems, local experiences, and food recommendations for each meal. ",
         "Provide specific timings and helpful tips. ",
         "Focus on ">> \o activity_str(acts)
    \o <<" activities for someone traveling ", comp, ". ",
         "Avoid showing prices. ",
         "Make the itinerary feel like a guidebook with immersive descriptions. ",
         "Respond in ", lang, ".">>

Prompt(v, loc, d, m, b, acts, comp, lang) ==
    IF v = "BB" THEN Prompt_BB(loc, d, m, b, acts, comp)
    ELSE Prompt_Phase1(loc, d, m, b, acts, comp, lang)

-----------------------------------------------------------------------------
(* generate_itinerary: the call and its outcomes *)

\* the exceptions of the client library that derive from OpenAIError
OpenAIErrors == {"AuthenticationError", "RateLimitError", "APIConnectionError", "Timeout"}

Choice(t) == [has_text |-> TRUE, text |-> t]
NoTextChoice == [has_text |-> FALSE, text |-> <<>>]

\* what the service call can do: raise an OpenAIError, or give a response
\* whose list of choices may be empty and whose choice may lack its text
ResponsesOf(completions) ==
    {[kind |-> e, choices |-> <<>>] : e \in OpenAIErrors}
    \cup {[kind |-> "response", choices |-> <<Choice(t)>>] : t \in completions}
    \cup {[kind |-> "response", choices |-> <<>>],
          [kind |-> "response", choices |-> <<NoTextChoice>>]}

Return(v, shown) == [tag |-> "return", value |-> v, ui |-> shown]
Raise(exc) == [tag |-> "raise", value |-> NoneVal, ui |-> {exc}]

\* response["choices"][0]["text"].strip(), inside try/except OpenAIError
Extract(r) ==
    IF Len(r.choices) = 0 THEN Raise("IndexError")
    ELSE IF ~r.choices[1].has_text THEN Raise("KeyError")
    ELSE Return(Str(strip(r.choices[1].text)), {})

generate_itinerary_BB(r) ==
    IF r.kind \in OpenAIErrors
    THEN Return(Str(<<"Unable to generate itinerary. Error: ", r.kind>>), {})
    ELSE Extract(r)

generate_itinerary_Phase1(r) ==
    IF r.kind \in OpenAIErrors
    THEN Return(NoneVal, {"error:openai"})
    ELSE Extract(r)

generate_itinerary(v, r) ==
    IF v = "BB" THEN generate_itinerary_BB(r) ELSE generate_itinerary_Phase1(r)

-----------------------------------------------------------------------------
(* create_pdf *)

NoPdf == [called |-> FALSE, font |-> "", title |-> <<>>, body |-> <<>>,
          output |-> "none", ui |-> {}]

Title(d, loc, m) ==
    <<DayStr[d], "-Day Travel Itinerary for ">> \o loc \o <<" in ", m>>

\* pdf.output(dest='S').encode('latin-1'): a strict encoding
EncodeLatin1(texts) == IF \A t \in texts : InLatin1(t) THEN "bytes" ELSE "raised"

create_pdf_BB(text, loc, d, m) ==
    LET title == Title(d, loc, m)
        itinerary_clean == remove_non_ascii(text)
    IN  [called |-> TRUE, font |-> "Arial", title |-> title,
         body |-> itinerary_clean,
         output |-> EncodeLatin1({title, itinerary_clean}), ui |-> {}]

font_path(lang) ==
    IF lang = "Bengali" THEN "NotoSansBengali-Regular.ttf" ELSE "DejaVuSans.ttf"

font_name(lang) == IF lang = "Bengali" THEN "NotoBengali" ELSE "DejaVu"

FontFiles == {font_path(l) : l \in Range(LanguageOptions)}

\* a create_pdf that goes on without looking for the font file
create_pdf_unchecked(text, loc, d, m, lang, present) ==
    [called |-> TRUE, font |-> font_name(lang), title |-> Title(d, loc, m),
     body |-> text, output |-> "bytes", ui |-> {}]

create_pdf_Phase1(text, loc, d, m, lang, present) ==
    IF font_path(lang) \notin present
    THEN [called |-> TRUE, font |-> "", title |-> <<>>, body |-> <<>>,
          output |-> "none", ui |-> {"error:font"}]
    ELSE [called |-> TRUE, font |-> font_name(lang), title |-> Title(d, loc, m),
          body |-> text, output |-> "bytes", ui |-> {}]

-----------------------------------------------------------------------------
(* main: the part after the button, "Download PDF" *)

Shown(it, shown, p, crash) ==
    [itinerary |-> it, ui |-> shown, pdf |-> p, crashed |-> crash]

RenderSection_BB(it, loc, d, m) ==
    IF Truthy(it)
    THEN LET p == create_pdf_BB(it.text, loc, d, m)
         IN  IF p.output = "raised"
             THEN Shown(it, {"UnicodeEncodeError"}, p, TRUE)
             ELSE Shown(it, {"download_button"}, p, FALSE)
    ELSE Shown(it, {"info"}, NoPdf, FALSE)

RenderSection_Phase1(it, loc, d, m, lang, present) ==
    IF Truthy(it)
    THEN LET p == create_pdf_Phase1(it.text, loc, d, m, lang, present)
         IN  IF p.output = "bytes"
             THEN Shown(it, p.ui \cup {"download_button"}, p, FALSE)
             ELSE Shown(it, p.ui, p, FALSE)
    ELSE Shown(it, {"info"}, NoPdf, FALSE)

\* a render that takes the itinerary out of the session once it is rendered
RenderSection_consuming(v, it, loc, d, m, lang, present) ==
    LET run == IF v = "BB" THEN RenderSection_BB(it, loc, d, m)
               ELSE RenderSection_Phase1(it, loc, d, m, lang, present)
    IN  IF run.pdf.output = "bytes" THEN [run EXCEPT !.itinerary = NoneVal] ELSE run

RenderSection(v, it, loc, d, m, lang, present) ==
    IF v = "BB" THEN RenderSection_BB(it, loc, d, m)
    ELSE RenderSection_Phase1(it, loc, d, m, lang, present)

\* a check of the location that forgets to strip it
Accepted_unstripped(loc) == loc # <<>>

\* if location.strip():
Accepted(loc) == strip(loc) # <<>>

\* what main does with the value generate_itinerary returned
Store_BB(g) == [cache |-> g.value, ui |-> g.ui \cup {"success", "markdown"}]

Store_Phase1(g) ==
    IF Truthy(g.value)
    THEN [cache |-> g.value, ui |-> g.ui \cup {"success", "markdown"}]
    ELSE [cache |-> NoneVal, ui |-> g.ui]

Store(v, g) == IF v = "BB" THEN Store_BB(g) ELSE Store_Phase1(g)

-----------------------------------------------------------------------------
(* The session *)

Request(loc, d, m, lang) ==
    [none |-> FALSE, location |-> loc, days |-> d, month |-> m, language |-> lang]
NoRequest ==
    [none |-> TRUE, location |-> <<>>, days |-> 0, month |-> "", language |-> ""]

\* the inputs the orchestration behaviours draw from
LocChars == {"a", " "}
Locations == TextsOver(LocChars, MaxLen)
DaysOf(v) == {MinDays, DefaultDays(v)}
Months == {MonthOptions[1], MonthOptions[4]}
Languages == {LanguageOptions[1], LanguageOptions[6]}
Completions == {<<" ">>, <<"a", " ">>}
Responses == ResponsesOf(Completions)

\* the state after the first run of the script, before any interaction
Init ==
    /\ variant \in Variants
    /\ fonts \in IF variant = "BB" THEN {{}} ELSE SUBSET FontFiles
    /\ location = <<>>
    /\ days = DefaultDays(variant)
    /\ month = MonthOptions[1]
    /\ budget = BudgetOptions[1]
    /\ activities = <<>>
    /\ travel_companion = CompanionOptions[1]
    /\ language = LanguageOptions[1]
    /\ itinerary = NoneVal
    /\ pc = "idle"
    /\ prompt = <<>>
    /\ calls = 0
    /\ ui = {"info"}
    /\ pdf = NoPdf
    /\ crashed = FALSE
    /\ event = "start"
    /\ lastOutcome = "none"
    /\ cachedRequest = NoRequest

\* a run of main() in which the button is not pressed
Rerun(evt, loc, d, m, lang) ==
    LET run == RenderSection(variant, itinerary, loc, d, m, lang, fonts)
    IN  /\ itinerary' = run.itinerary
        /\ ui' = run.ui
        /\ pdf' = run.pdf
        /\ crashed' = run.crashed
        /\ event' = evt
        /\ UNCHANGED <<variant, fonts, pc, prompt, calls, lastOutcome, cachedRequest>>

ChangeLocation(choices) ==
    /\ pc = "idle"
    /\ \E s \in choices \ {location} :
        /\ location' = s
        /\ Rerun("change", s, days, month, language)
    /\ UNCHANGED <<days, month, budget, activities, travel_companion, language>>

ChangeDays ==
    /\ pc = "idle"
    /\ \E d \in DaysOf(variant) \ {days} :
        /\ days' = d
        /\ Rerun("change", location, d, month, language)
    /\ UNCHANGED <<location, month, budget, activities, travel_companion, language>>

ChangeMonth ==
    /\ pc = "idle"
    /\ \E m \in Months \ {month} :
        /\ month' = m
        /\ Rerun("change", location, days, m, language)
    /\ UNCHANGED <<location, days, budget, activities, travel_companion, language>>

ChangeLanguage ==
    /\ pc = "idle"
    /\ variant = "Phase1"
    /\ \E l \in Languages \ {language} :
        /\ language' = l
        /\ Rerun("change", location, days, month, l)
    /\ UNCHANGED <<location, days, month, budget, activities, travel_companion>>

\* pressing the download button reruns the script
ClickDownload ==
    /\ pc = "idle"
    /\ "download_button" \in ui
    /\ Rerun("download", location, days, month, language)
    /\ UNCHANGED inputs

\* pressing "Generate Itinerary": up to the call of the generation service,
\* or the whole run when the location is rejected
ClickGenerate ==
    /\ pc = "idle"
    /\ event' = "generate"
    /\ IF Accepted(location)
       THEN /\ calls < MaxCalls
            /\ itinerary' = NoneVal
            /\ cachedRequest' = NoRequest
            /\ prompt' = Prompt(variant, location, days, month, budget,
                                activities, travel_companion, language)
            /\ calls' = calls + 1
            /\ pc' = "generating"
            /\ ui' = {}
            /\ pdf' = NoPdf
            /\ crashed' = FALSE
            /\ lastOutcome' = "pending"
       ELSE LET run == RenderSection(variant, itinerary, location, days, month,
                                     language, fonts)
            IN  /\ itinerary' = run.itinerary
                /\ ui' = {"warning"} \cup run.ui
                /\ pdf' = run.pdf
                /\ crashed' = run.crashed
                /\ UNCHANGED <<cachedRequest, prompt, calls, pc, lastOutcome>>
    /\ UNCHANGED <<variant, fonts>>
    /\ UNCHANGED inputs

\* the service call ends, and main runs to its end
GenerateReturns(responses) ==
    /\ pc = "generating"
    /\ \E r \in responses :
        LET g == generate_itinerary(variant, r)
            s == Store(variant, g)
            run == RenderSection(variant, s.cache, location, days, month,
                                 language, fonts)
        IN  IF g.tag = "raise"
            THEN /\ UNCHANGED <<itinerary, cachedRequest>>
                 /\ ui' = g.ui
                 /\ pdf' = NoPdf
                 /\ crashed' = TRUE
                 /\ lastOutcome' = "raised"
            ELSE /\ itinerary' = run.itinerary
                 /\ cachedRequest' =
                        IF s.cache.isNone THEN NoRequest
                        ELSE Request(location, days, month, language)
                 /\ ui' = s.ui \cup run.ui
                 /\ pdf' = run.pdf
                 /\ crashed' = run.crashed
                 /\ lastOutcome' = IF r.kind \in OpenAIErrors THEN "failed" ELSE "ok"
    /\ pc' = "idle"
    /\ prompt' = <<>>
    /\ event' = "response"
    /\ UNCHANGED <<variant, fonts, calls>>
    /\ UNCHANGED inputs

Next ==
    \/ ChangeLocation(Locations)
    \/ ChangeDays
    \/ ChangeMonth
    \/ ChangeLanguage
    \/ ClickDownload
    \/ ClickGenerate
    \/ GenerateReturns(Responses)

Spec == Init /\ [][Next]_vars

-----------------------------------------------------------------------------
(* generate_itinerary alone: the form as the user filled it in, then one   *)
(* press of the button.                                                    *)

RequestDays == {MinDays, MaxDays}
NoRepeat(s) == \A i, j \in 1..Len(s) : i # j => s[i] # s[j]
Selections == {s \in TextsOver(Range(ActivityOptions), MaxActs) : NoRepeat(s)}

InitPrompt ==
    /\ variant \in Variants
    /\ fonts = {}
    /\ location \in Locations
    /\ days \in RequestDays
    /\ month \in Months
    /\ budget \in Range(BudgetOptions)
    /\ activities \in Selections
    /\ travel_companion \in Range(CompanionOptions)
    /\ language \in IF variant = "BB" THEN {LanguageOptions[1]} ELSE Languages
    /\ itinerary = NoneVal
    /\ pc = "idle"
    /\ prompt = <<>>
    /\ calls = 0
    /\ ui = {"info"}
    /\ pdf = NoPdf
    /\ crashed = FALSE
    /\ event = "change"
    /\ lastOutcome = "none"
    /\ cachedRequest = NoRequest

NextPrompt == ClickGenerate

SpecPrompt == InitPrompt /\ [][NextPrompt]_vars

-----------------------------------------------------------------------------
(* create_pdf of BB.py alone: a request for any destination is in flight,  *)
(* and the service completes it with any text.                             *)

PdfChars == {"a", " ", "e_acute", "L_stroke", "fi_lig"}
PdfLocations == {s \in TextsOver(PdfChars, MaxLen) : Accepted(s)}
PdfResponses == ResponsesOf(TextsOver(PdfChars, MaxLen))

InitPdf ==
    /\ variant = "BB"
    /\ fonts = {}
    /\ location \in PdfLocations
    /\ days = DefaultDays(variant)
    /\ month = MonthOptions[1]
    /\ budget = BudgetOptions[1]
    /\ activities = <<>>
    /\ travel_companion = CompanionOptions[1]
    /\ language = LanguageOptions[1]
    /\ itinerary = NoneVal
    /\ pc = "generating"
    /\ prompt = Prompt(variant, location, days, month, budget, activities,
                       travel_companion, language)
    /\ calls = 1
    /\ ui = {}
    /\ pdf = NoPdf
    /\ crashed = FALSE
    /\ event = "generate"
    /\ lastOutcome = "pending"
    /\ cachedRequest = NoRequest

NextPdf ==
    \/ GenerateReturns(PdfResponses)
    \/ ClickDownload

SpecPdf == InitPdf /\ [][NextPdf]_vars

-----------------------------------------------------------------------------
(* The claims *)

Blank(text) == \A i \in 1..Len(text) : text[i] \in Whitespace

\* C1: when a generation call ends in a failure of the service, the cached
\* itinerary is empty afterwards and no document is produced from it, until
\* a later generation succeeds.
C1_FailureLeavesCacheEmpty ==
    (pc = "idle" /\ lastOutcome = "failed")
        => (itinerary.isNone /\ pdf.output # "bytes" /\ "download_button" \notin ui)

\* C2: once a submit is accepted the cache is cleared before the service is
\* called: while the call is in flight, and after it fails or raises, the
\* cache is empty and nothing is rendered.
C2_StaleNeverExposed ==
    (pc = "generating" \/ lastOutcome \in {"failed", "raised"})
        => (itinerary.isNone /\ ~pdf.called)

\* C3: generate_itinerary never raises past its boundary: every call that
\* ends has returned a value, and the run of main completes.
C3_GenerateNeverRaises ==
    (event = "response") => (lastOutcome \in {"ok", "failed"} /\ ~crashed)

\* C4: pressing the button with an empty or whitespace-only destination
\* calls the generation service not at all and shows a warning, whatever the
\* other fields and the prior state are.
C4_BlankLocationRejected ==
    [][(event' = "generate" /\ Blank(location))
        => (/\ calls' = calls
            /\ pc' = "idle"
            /\ prompt' = <<>>
            /\ itinerary' = itinerary
            /\ "warning" \in ui')]_vars

C4_Witness ==
    /\ event = "generate"
    /\ location # <<>>
    /\ Blank(location)
    /\ "warning" \in ui
    /\ Truthy(itinerary)
    /\ lastOutcome = "ok"

\* C5 (as claimed): in Phase1.py, when the font file of the language is not
\* there at render time, create_pdf still returns a document.
C5_MissingFontFallsBack ==
    (variant = "Phase1" /\ pdf.called /\ font_path(language) \notin fonts)
        => (pdf.output = "bytes" /\ "download_button" \in ui)

\* C5 (amended): in Phase1.py, when the font file of the language is not
\* there at render time, create_pdf shows an error, returns no document and
\* the download is not offered; the cached itinerary is kept.
C5_MissingFontFailsRender ==
    (/\ variant = "Phase1"
     /\ pc = "idle"
     /\ Truthy(itinerary)
     /\ font_path(language) \notin fonts)
        => (/\ pdf.called
            /\ pdf.output = "none"
            /\ "error:font" \in ui
            /\ "download_button" \notin ui)

C5_Witness ==
    /\ variant = "Phase1"
    /\ event = "change"
    /\ Truthy(itinerary)
    /\ font_path(language) \notin fonts
    /\ "error:font" \in ui

\* C6: whenever BB.py renders with the built-in font, no text written to
\* the document, title or body, has a character outside the font's encoding,
\* for any destination and any itinerary, and the document is produced.
C6_FallbackTextRepresentable ==
    (variant = "BB" /\ pdf.called /\ lastOutcome = "ok")
        => (InLatin1(pdf.title) /\ InLatin1(pdf.body) /\ pdf.output = "bytes")

Contains(text, part) ==
    \E i \in 0..(Len(text) - Len(part)) : SubSeq(text, i + 1, i + Len(part)) = part

\* every selected activity is in the text, each followed by a comma and the next
NamesActivities(text, acts) ==
    IF acts = <<>> THEN Contains(text, <<"any">>)
    ELSE \E k \in 1..Len(text) :
            \A i \in 1..Len(acts) :
                /\ k + 2 * (i - 1) <= Len(text)
                /\ text[k + 2 * (i - 1)] = acts[i]
                /\ i < Len(acts) => text[k + 2 * i - 1] = ", "

NamesRequest(text) ==
    /\ Contains(text, location)
    /\ Contains(text, <<DayStr[days]>>)
    /\ Contains(text, <<month>>)
    /\ Contains(text, <<budget>>)
    /\ Contains(text, <<travel_companion>>)
    /\ NamesActivities(text, activities)

\* C8 (as claimed): in BB.py and in Phase1.py the prompt names the
\* destination, the day count, the month, the budget, the companion, the
\* target language, and "any" or every selected activity.
C8_PromptNamesLanguageToo ==
    (pc = "generating") => (NamesRequest(prompt) /\ Contains(prompt, <<language>>))

\* C8 (amended): the prompt names the destination, the day count, the
\* month, the budget, the companion, and "any" or every selected activity
\* joined by commas; in Phase1.py it names the target language too.
C8_PromptNamesEveryField ==
    (pc = "generating")
        => (/\ NamesRequest(prompt)
            /\ variant = "Phase1" => Contains(prompt, <<language>>))

C8_Witness ==
    /\ pc = "generating"
    /\ variant = "Phase1"
    /\ Len(activities) = 2
    /\ language = "Bengali"

\* C9: every document is rendered from the cached itinerary and the request
\* that produced it: its title and font are those of that request.
C9_DocumentOfCachedRequest ==
    (pdf.output = "bytes" /\ lastOutcome = "ok")
        => (/\ ~cachedRequest.none
            /\ pdf.title = Title(cachedRequest.days, cachedRequest.location,
                                 cachedRequest.month)
            /\ variant = "Phase1" => pdf.font = font_name(cachedRequest.language))

\* C10: in Phase1.py every accepted submit whose generation call returns
\* ends with the itinerary cached and shown, or with a failure reason shown.
C10_CachedOrFailureShown ==
    (variant = "Phase1" /\ event = "response" /\ lastOutcome \in {"ok", "failed"})
        => ((Truthy(itinerary) /\ "markdown" \in ui) \/ "error:openai" \in ui)

====
